---------------------------- MODULE Spec2Model ----------------------------
(***************************************************************************)
(* Model of src/src/log.c: a leveled logger for bare-metal targets.  One    *)
(* global state struct L (lock hook, threshold, quiet flag, callback        *)
(* table), a static formatting buffer, and log_log(), which dispatches one  *)
(* event to the semihosting sink and to the registered callbacks.           *)
(*                                                                         *)
(* Pointers are strings ("NULL" is the null pointer), characters are        *)
(* one-character strings ("NUL" is the zero byte), C strings are sequences  *)
(* of characters without the terminator.                                    *)
(***************************************************************************)
EXTENDS Integers, Sequences, FiniteSets, TLC

(***************************************************************************)
(* Sizes.  Both are scaled down: the source has MAX_CALLBACKS 32, and       *)
(* LOG_BUFFER_SIZE comes from log.h.                                        *)
(***************************************************************************)
MAX_CALLBACKS == 2

LOG_BUFFER_SIZE == 28

\* Longest file name and longest run of literal characters in a format
\* string that the formatter is tried on.
MaxFileLen == 14

MaxLiteralLen == 30

SYS_WRITE == 5

NULL == "NULL"

NUL == "NUL"

Min(a, b) == IF a < b THEN a ELSE b

Max(a, b) == IF a > b THEN a ELSE b

(***************************************************************************)
(* Severities: the index into level_strings.                                *)
(***************************************************************************)
level_strings ==
  << <<"T", "R", "A", "C", "E">>, <<"D", "E", "B", "U", "G">>,
     <<"I", "N", "F", "O">>, <<"W", "A", "R", "N">>,
     <<"E", "R", "R", "O", "R">>, <<"F", "A", "T", "A", "L">> >>

Levels == 0 .. (Len(level_strings) - 1)

LOG_TRACE == 0

LOG_DEBUG == 1

LOG_INFO == 2

LOG_WARN == 3

LOG_ERROR == 4

LOG_FATAL == 5

\* const char *level_str = level_strings[ev->level] (C indexes from 0)
LevelStr(level) == level_strings[level + 1]

(***************************************************************************)
(* The C library conversions the formatter uses.                            *)
(***************************************************************************)
Digit(d) == <<"0", "1", "2", "3", "4", "5", "6", "7", "8", "9">>[d + 1]

RECURSIVE DecStr(_)
\* "%d": the decimal digits of n, with a minus sign when negative
DecStr(n) ==
  IF n < 0 THEN <<"-">> \o DecStr(0 - n)
  ELSE IF n < 10 THEN <<Digit(n)>>
  ELSE DecStr(n \div 10) \o <<Digit(n % 10)>>

\* "%02d" of one field of a struct tm
TwoDigits(n) == <<Digit((n \div 10) % 10), Digit(n % 10)>>

\* The struct tm values localtime() can hand out, by pointer.
Times == {"t1", "t2"}

TmOf(p) ==
  IF p = "t1" THEN [hour |-> 9, min |-> 5, sec |-> 7]
  ELSE [hour |-> 23, min |-> 59, sec |-> 58]

\* "%H:%M:%S"
TimeStr(p) ==
  TwoDigits(TmOf(p).hour) \o <<":">> \o TwoDigits(TmOf(p).min)
    \o <<":">> \o TwoDigits(TmOf(p).sec)

(***************************************************************************)
(* Format strings are sequences of tokens: a literal character, "%d"        *)
(* (takes the next int of the argument list) or "%lc" (a wide character     *)
(* that cannot be encoded, which makes vsnprintf return a negative value).  *)
(* ap is the number of arguments already taken from the list.               *)
(***************************************************************************)
RECURSIVE Expand(_, _, _)
Expand(fmt, args, ap) ==
  IF fmt = <<>> THEN [text |-> <<>>, ap |-> ap, err |-> FALSE]
  ELSE IF Head(fmt) = "%lc" THEN [text |-> <<>>, ap |-> ap + 1, err |-> TRUE]
  ELSE IF Head(fmt) = "%d" THEN
    LET rest == Expand(Tail(fmt), args, ap + 1)
        \* va_arg past the end of the list reads whatever is there
        this == IF ap >= 0 /\ ap < Len(args) THEN DecStr(args[ap + 1]) ELSE <<"?">>
    IN  [text |-> this \o rest.text, ap |-> rest.ap, err |-> rest.err]
  ELSE
    LET rest == Expand(Tail(fmt), args, ap)
    IN  [text |-> <<Head(fmt)>> \o rest.text, ap |-> rest.ap, err |-> rest.err]

(***************************************************************************)
(* The formatter works on st = [buf, pos, hi]: the static buffer, the       *)
(* write position and the highest buffer index stored to so far (-1 when    *)
(* nothing was stored; a record of the stores, not program state).          *)
(***************************************************************************)
StoreSeq(b, at, s) ==
  [k \in DOMAIN b |-> IF k >= at /\ k < at + Len(s) THEN s[k - at + 1] ELSE b[k]]

Stored(st, s, newpos) ==
  [buf |-> StoreSeq(st.buf, st.pos, s),
   pos |-> newpos,
   hi  |-> IF s = <<>> THEN st.hi ELSE Max(st.hi, st.pos + Len(s) - 1)]

\* if (pos < sizeof(buf) - 1) buf[pos++] = c;
PutC(st, c) ==
  IF st.pos < LOG_BUFFER_SIZE - 1 THEN Stored(st, <<c>>, st.pos + 1) ELSE st

\* while (*s && pos < sizeof(buf) - 1) buf[pos++] = *s++;
CopyStr(st, s) ==
  LET n == Min(Len(s), Max(0, (LOG_BUFFER_SIZE - 1) - st.pos))
  IN  Stored(st, SubSeq(s, 1, n), st.pos + n)

\* pos += strftime(buf + pos, sizeof(buf) - pos, "%H:%M:%S", ev->time);
\* the result with its terminator must fit, else 0 is returned and the
\* array holds indeterminate bytes ("?").
Strftime(st, tm) ==
  LET max == LOG_BUFFER_SIZE - st.pos
      s   == TimeStr(tm)
  IN  IF Len(s) < max
      THEN Stored(st, s \o <<NUL>>, st.pos + Len(s))
      ELSE Stored(st, [k \in 1 .. max |-> "?"], st.pos)

\* pos += snprintf(buf + pos, sizeof(buf) - pos, "%d", ev->line);
\* stores at most size-1 characters and the terminator, returns the full length.
Snprintf(st, s) ==
  LET size == LOG_BUFFER_SIZE - st.pos
      kept == SubSeq(s, 1, Min(Len(s), size - 1))
  IN  Stored(st, kept \o <<NUL>>, st.pos + Len(s))

\* lines 110-116: the message, bounded by the remaining space
Vsnprintf(st, fmt, args, ap) ==
  IF st.pos < LOG_BUFFER_SIZE THEN
    LET remaining == LOG_BUFFER_SIZE - st.pos
        x         == Expand(fmt, args, ap)
        msg_len   == IF x.err THEN -1 ELSE Len(x.text)
        kept      == SubSeq(x.text, 1, Min(Len(x.text), remaining - 1))
    IN  IF msg_len >= 0
        THEN Stored(st, kept \o <<NUL>>,
                    st.pos + (IF msg_len < remaining THEN msg_len ELSE remaining - 1))
        ELSE Stored(st, <<"?">>, st.pos)
  ELSE st

\* Newline clamping to the last index of the buffer
Newline_last_index(st) ==
  LET p == IF st.pos >= LOG_BUFFER_SIZE - 1 THEN LOG_BUFFER_SIZE - 1 ELSE st.pos
  IN  Stored([st EXCEPT !.pos = p], <<"\n">>, p + 1)

\* Newline without lines 118-120
Newline_unclamped(st) == Stored(st, <<"\n">>, st.pos + 1)

\* lines 118-121: force the newline into the buffer
Newline(st) ==
  LET p == IF st.pos >= LOG_BUFFER_SIZE - 1 THEN LOG_BUFFER_SIZE - 2 ELSE st.pos
  IN  Stored([st EXCEPT !.pos = p], <<"\n">>, p + 1)

\* stdout_callback up to the call of semihosting_write: the buffer, the
\* length to write, the highest index stored to and the argument cursor.
stdout_callback(e, args, buf0) ==
  LET s0  == [buf |-> buf0, pos |-> 0, hi |-> -1]
      s1  == PutC(Strftime(s0, e.time), " ")
      s2  == PutC(CopyStr(s1, LevelStr(e.level)), " ")
      s3  == PutC(CopyStr(s2, e.file), ":")
      s4  == PutC(PutC(Snprintf(s3, DecStr(e.line)), ":"), " ")
      s5  == Vsnprintf(s4, e.fmt, args, e.ap)
      s6  == Newline(s5)
  IN  [buf |-> s6.buf, pos |-> s6.pos, hi |-> s6.hi,
       ap  |-> IF s4.pos < LOG_BUFFER_SIZE THEN Expand(e.fmt, args, e.ap).ap
               ELSE e.ap]

\* semihosting_write(buf, length): the descriptor handed to the debug monitor
semihosting_write(b, length) ==
  [op |-> "write", code |-> SYS_WRITE, fd |-> 1,
   bytes |-> [k \in 1 .. length |-> b[k - 1]], length |-> length]


(***************************************************************************)
(* State.                                                                  *)
(***************************************************************************)
VARIABLES
  L,       \* the global struct: udata, lock, level, quiet, callbacks
  buf,     \* static char buf[LOG_BUFFER_SIZE] of stdout_callback
  holder,  \* per mutex a lock hook guards: the thread holding it, or NULL
  pc,      \* per thread: where it is in the call it is making
  ev,      \* per thread: the log_Event on the stack of log_log
  vargs,   \* per thread: the variadic arguments of the log_log call
  idx,     \* per thread: the loop index i of log_log
  pos,     \* per thread: pos of stdout_callback, once the line is formatted
  ret,     \* per thread: the value log_add_callback returns
  trace    \* per thread: the call being made and the calls it has made out
           \* of the library (lock hook, time source, semihosting, callbacks)

vars == <<L, buf, holder, pc, ev, vargs, idx, pos, ret, trace>>

Threads == {"main", "other"}

Main == "main"

Mutexes == {"m1"}

\* what log_set_lock is called with: no lock, or a hook with its mutex
LockArgs == {<<NULL, NULL>>, <<"h1", "m1">>}

LogFns == {"f1", "f2"}

\* what log_add_callback is called with
RegArgs ==
  {<<NULL, "u1", LOG_WARN>>}
    \cup {<<"f1", "u1", l>> : l \in {LOG_WARN, LOG_ERROR}}
    \cup {<<"f2", "u2", l>> : l \in {LOG_TRACE, LOG_ERROR}}

\* Callback: a zeroed slot of the static table
NoCallback == [fn |-> NULL, udata |-> NULL, level |-> 0]

Slots == 0 .. (MAX_CALLBACKS - 1)

\* a log_Event before log_log fills it in
NoEvent ==
  [fmt |-> <<>>, file |-> <<>>, line |-> 0, level |-> 0,
   time |-> NULL, udata |-> NULL, ap |-> -1]

\* static struct { ... } L: static storage is zero-initialised
ZeroL ==
  [udata |-> NULL, lock |-> NULL, level |-> 0, quiet |-> FALSE,
   callbacks |-> [s \in Slots |-> NoCallback]]

Init ==
  /\ L = ZeroL
  /\ buf = [k \in 0 .. (LOG_BUFFER_SIZE - 1) |-> NUL]
  /\ holder = [m \in Mutexes |-> NULL]
  /\ pc = [t \in Threads |-> "idle"]
  /\ ev = [t \in Threads |-> NoEvent]
  /\ vargs = [t \in Threads |-> <<>>]
  /\ idx = [t \in Threads |-> 0]
  /\ pos = [t \in Threads |-> 0]
  /\ ret = [t \in Threads |-> 0]
  /\ trace = [t \in Threads |-> <<>>]

Idle(t) == pc[t] = "idle"

Quiescent == \A t \in Threads : Idle(t)

(***************************************************************************)
(* The setters.                                                            *)
(***************************************************************************)
log_set_lock(fn, udata) ==
  /\ L' = [L EXCEPT !.lock = fn, !.udata = udata]
  /\ UNCHANGED <<buf, holder, pc, ev, vargs, idx, pos, ret, trace>>

\* log_set_level that also switches quiet mode off
log_set_level_unquiet(level) ==
  /\ L' = [L EXCEPT !.level = level, !.quiet = FALSE]
  /\ UNCHANGED <<buf, holder, pc, ev, vargs, idx, pos, ret, trace>>

log_set_level(level) ==
  /\ L' = [L EXCEPT !.level = level]
  /\ UNCHANGED <<buf, holder, pc, ev, vargs, idx, pos, ret, trace>>

log_set_quiet(enable) ==
  /\ L' = [L EXCEPT !.quiet = enable]
  /\ UNCHANGED <<buf, holder, pc, ev, vargs, idx, pos, ret, trace>>

(***************************************************************************)
(* log_add_callback: the first slot whose fn is null takes the entry.       *)
(***************************************************************************)
FreeSlots(cbs) == {s \in Slots : cbs[s].fn = NULL}

FirstFree(cbs) == CHOOSE s \in FreeSlots(cbs) : \A r \in FreeSlots(cbs) : s <= r

\* log_add_callback taking the highest free slot
log_add_callback_from_end(t, fn, udata, level) ==
  /\ Idle(t)
  /\ IF FreeSlots(L.callbacks) # {}
     THEN /\ L' = [L EXCEPT !.callbacks[CHOOSE s \in FreeSlots(L.callbacks) :
                                          \A r \in FreeSlots(L.callbacks) : s >= r] =
                              [fn |-> fn, udata |-> udata, level |-> level]]
          /\ ret' = [ret EXCEPT ![t] = 0]
     ELSE /\ L' = L
          /\ ret' = [ret EXCEPT ![t] = -1]
  /\ pc' = [pc EXCEPT ![t] = "added"]
  /\ trace' = [trace EXCEPT ![t] =
                 <<[op |-> "log_add_callback", fn |-> fn, udata |-> udata,
                    level |-> level]>>]
  /\ UNCHANGED <<buf, holder, ev, vargs, idx, pos>>

\* log_add_callback taking the last slot when none is free
log_add_callback_overwrite(t, fn, udata, level) ==
  /\ Idle(t)
  /\ IF FreeSlots(L.callbacks) # {}
     THEN /\ L' = [L EXCEPT !.callbacks[FirstFree(L.callbacks)] =
                              [fn |-> fn, udata |-> udata, level |-> level]]
          /\ ret' = [ret EXCEPT ![t] = 0]
     ELSE /\ L' = [L EXCEPT !.callbacks[MAX_CALLBACKS - 1] =
                              [fn |-> fn, udata |-> udata, level |-> level]]
          /\ ret' = [ret EXCEPT ![t] = -1]
  /\ pc' = [pc EXCEPT ![t] = "added"]
  /\ trace' = [trace EXCEPT ![t] =
                 <<[op |-> "log_add_callback", fn |-> fn, udata |-> udata,
                    level |-> level]>>]
  /\ UNCHANGED <<buf, holder, ev, vargs, idx, pos>>

log_add_callback(t, fn, udata, level) ==
  /\ Idle(t)
  /\ IF FreeSlots(L.callbacks) # {}
     THEN /\ L' = [L EXCEPT !.callbacks[FirstFree(L.callbacks)] =
                              [fn |-> fn, udata |-> udata, level |-> level]]
          /\ ret' = [ret EXCEPT ![t] = 0]
     ELSE /\ L' = L
          /\ ret' = [ret EXCEPT ![t] = -1]
  /\ pc' = [pc EXCEPT ![t] = "added"]
  /\ trace' = [trace EXCEPT ![t] =
                 <<[op |-> "log_add_callback", fn |-> fn, udata |-> udata,
                    level |-> level]>>]
  /\ UNCHANGED <<buf, holder, ev, vargs, idx, pos>>

\* the caller has the return value; the thread is ready for its next call
Return(t) ==
  /\ pc[t] \in {"added", "done"}
  /\ pc' = [pc EXCEPT ![t] = "idle"]
  /\ ev' = [ev EXCEPT ![t] = NoEvent]
  /\ vargs' = [vargs EXCEPT ![t] = <<>>]
  /\ idx' = [idx EXCEPT ![t] = 0]
  /\ pos' = [pos EXCEPT ![t] = 0]
  /\ ret' = [ret EXCEPT ![t] = 0]
  /\ trace' = [trace EXCEPT ![t] = <<>>]
  /\ UNCHANGED <<L, buf, holder>>


(***************************************************************************)
(* log_log, one step at a time.                                            *)
(***************************************************************************)
Append1(t, r) == [trace EXCEPT ![t] = Append(@, r)]

\* log_log storing the event's level in L as well
LogCall_sets_level(t, level, file, line, fmt, args) ==
  /\ Idle(t)
  /\ ev' = [ev EXCEPT ![t] = [fmt |-> fmt, file |-> file, line |-> line,
                              level |-> level, time |-> NULL, udata |-> NULL,
                              ap |-> -1]]
  /\ vargs' = [vargs EXCEPT ![t] = args]
  /\ trace' = [trace EXCEPT ![t] = <<[op |-> "log_log", level |-> level]>>]
  /\ pc' = [pc EXCEPT ![t] = "lock"]
  /\ L' = [L EXCEPT !.level = level]
  /\ UNCHANGED <<buf, holder, idx, pos, ret>>

\* lines 178-184: the event on the stack; members not named are zeroed
LogCall(t, level, file, line, fmt, args) ==
  /\ Idle(t)
  /\ ev' = [ev EXCEPT ![t] = [fmt |-> fmt, file |-> file, line |-> line,
                              level |-> level, time |-> NULL, udata |-> NULL,
                              ap |-> -1]]
  /\ vargs' = [vargs EXCEPT ![t] = args]
  /\ trace' = [trace EXCEPT ![t] = <<[op |-> "log_log", level |-> level]>>]
  /\ pc' = [pc EXCEPT ![t] = "lock"]
  /\ UNCHANGED <<L, buf, holder, idx, pos, ret>>

\* L.lock(acquiring, L.udata): a hook given a mutex waits until it is free
\* and takes it, or gives it back
HookCall(t, acquiring) ==
  /\ IF L.udata \in Mutexes
     THEN /\ acquiring => holder[L.udata] = NULL
          /\ holder' = [holder EXCEPT ![L.udata] = IF acquiring THEN t ELSE NULL]
     ELSE holder' = holder
  /\ trace' = Append1(t, [op |-> "lock", fn |-> L.lock, acquiring |-> acquiring,
                          udata |-> L.udata])

\* lock and unlock that never call the hook
lock_missing(t) == UNCHANGED <<holder, trace>>

unlock_missing(t) == UNCHANGED <<holder, trace>>

\* static void lock(void)
lock(t) ==
  IF L.lock # NULL THEN HookCall(t, TRUE) ELSE UNCHANGED <<holder, trace>>

\* static void unlock(void)
unlock(t) ==
  IF L.lock # NULL THEN HookCall(t, FALSE) ELSE UNCHANGED <<holder, trace>>

\* line 186
LogLock(t) ==
  /\ pc[t] = "lock"
  /\ lock(t)
  /\ pc' = [pc EXCEPT ![t] = "primary"]
  /\ UNCHANGED <<L, buf, ev, vargs, idx, pos, ret>>

\* time(NULL) and localtime(): the clock reads t1 when a call first asks
\* and has moved on to t2 if the same call asks again
Now(tr) == IF \E k \in DOMAIN tr : tr[k].op = "time" THEN "t2" ELSE "t1"

\* init_event taking the time at every call
init_event_retimed(e, udata, now) == [e EXCEPT !.time = now, !.udata = udata]

\* init_event binding the user data only while none is bound
init_event_first_udata(e, udata, now) ==
  [e EXCEPT !.time = IF e.time = NULL THEN now ELSE e.time,
            !.udata = IF e.udata = NULL THEN udata ELSE e.udata]

\* init_event, given what the time source answers if it is asked
init_event(e, udata, now) ==
  [e EXCEPT !.time = IF e.time = NULL THEN now ELSE e.time, !.udata = udata]

\* the calls init_event makes out of the library
TimeCalls(e) == IF e.time = NULL THEN <<[op |-> "time"]>> ELSE <<>>

\* no va_start: the list stands where the last consumer left it
va_start_missing(e) == e

\* va_start(ev.ap, fmt): the list stands at the first variadic argument
va_start(e) == [e EXCEPT !.ap = 0]

\* line 188 with a strict comparison
PrimaryEnabled_strict(level) == ~L.quiet /\ level > L.level

\* line 188
PrimaryEnabled(level) == ~L.quiet /\ level >= L.level

\* line 197 with the quiet flag consulted
CallbackEnabled_unless_quiet(cb, level) == ~L.quiet /\ level >= cb.level

\* line 197
CallbackEnabled(cb, level) == level >= cb.level

\* what a consumer is handed: the event, and the message its format expands
\* to from where the argument list stands
Handed(o, s, fn, e, args) ==
  [op |-> o, slot |-> s, fn |-> fn, udata |-> e.udata, time |-> e.time,
   ap |-> e.ap, msg |-> Expand(e.fmt, args, e.ap).text]

\* lines 188-191 and stdout_callback up to line 121: the line is in buf
LogPrimary(t) ==
  /\ pc[t] = "primary"
  /\ IF PrimaryEnabled(ev[t].level)
     THEN   LET e1 == va_start(init_event(ev[t], NULL, Now(trace[t])))
                r  == stdout_callback(e1, vargs[t], buf)
            IN  /\ buf' = r.buf
                /\ pos' = [pos EXCEPT ![t] = r.pos]
                /\ ev' = [ev EXCEPT ![t] = [e1 EXCEPT !.ap = r.ap]]
                /\ trace' = [trace EXCEPT ![t] =
                     @ \o TimeCalls(ev[t])
                       \o <<Handed("stdout_callback", -1, "stdout_callback",
                                   e1, vargs[t]),
                            [op |-> "format", hi |-> r.hi]>>]
                /\ pc' = [pc EXCEPT ![t] = "write"]
     ELSE /\ pc' = [pc EXCEPT ![t] = "loop"]
          /\ UNCHANGED <<buf, pos, ev, trace>>
  /\ UNCHANGED <<L, holder, vargs, idx, ret>>

\* the write made a second time
LogWrite_retry(t) ==
  /\ pc[t] = "write"
  /\ trace' = [trace EXCEPT ![t] =
                 @ \o <<semihosting_write(buf, pos[t]),
                        semihosting_write(buf, pos[t])>>]
  /\ pc' = [pc EXCEPT ![t] = "loop"]
  /\ UNCHANGED <<L, buf, holder, ev, vargs, idx, pos, ret>>

\* line 123 and line 192: the buffer goes to the debug channel
LogWrite(t) ==
  /\ pc[t] = "write"
  /\ trace' = Append1(t, semihosting_write(buf, pos[t]))
  /\ pc' = [pc EXCEPT ![t] = "loop"]
  /\ UNCHANGED <<L, buf, holder, ev, vargs, idx, pos, ret>>

\* lines 195-203: one turn of the loop, looking at slot s.  An observer that
\* formats the message takes every argument its format names.
LoopTurn(t, s) ==
  /\ pc[t] = "loop"
  /\ IF idx[t] < MAX_CALLBACKS /\ L.callbacks[s].fn # NULL
     THEN LET cb == L.callbacks[s]
          IN  /\ IF CallbackEnabled(cb, ev[t].level)
                 THEN   LET e1 == va_start(init_event(ev[t], cb.udata,
                                                             Now(trace[t])))
                        IN  /\ trace' = [trace EXCEPT ![t] =
                                 @ \o TimeCalls(ev[t])
                                   \o <<Handed("callback", s, cb.fn, e1,
                                               vargs[t])>>]
                            /\ ev' = [ev EXCEPT ![t] =
                                 [e1 EXCEPT !.ap = Expand(e1.fmt, vargs[t], e1.ap).ap]]
                 ELSE UNCHANGED <<ev, trace>>
              /\ idx' = [idx EXCEPT ![t] = @ + 1]
              /\ pc' = pc
     ELSE /\ pc' = [pc EXCEPT ![t] = "unlock"]
          /\ UNCHANGED <<ev, trace, idx>>
  /\ UNCHANGED <<L, buf, holder, vargs, pos, ret>>

\* the loop with i++ inside the if: a slot that does not qualify is looked at
\* again
LogLoop_no_advance(t) ==
  /\ pc[t] = "loop"
  /\ IF /\ idx[t] < MAX_CALLBACKS
        /\ L.callbacks[idx[t]].fn # NULL
        /\ ~CallbackEnabled(L.callbacks[idx[t]], ev[t].level)
     THEN UNCHANGED vars
     ELSE LoopTurn(t, idx[t])

\* the loop run from the last slot down
LogLoop_backwards(t) == LoopTurn(t, MAX_CALLBACKS - 1 - idx[t])

\* for (int i = 0; ...; i++): the slot looked at is slot i
LogLoop(t) == LoopTurn(t, idx[t])

\* line 205
LogUnlock(t) ==
  /\ pc[t] = "unlock"
  /\ unlock(t)
  /\ pc' = [pc EXCEPT ![t] = "done"]
  /\ UNCHANGED <<L, buf, ev, vargs, idx, pos, ret>>

(***************************************************************************)
(* Spec: the library used from one thread.  Every call runs to its return   *)
(* before the next one is made.                                             *)
(***************************************************************************)
\* the call site of the spec's example: log(level, "m.c", 7, "y=%d", 7)
SiteFile == <<"m", ".", "c">>

SiteFmt == <<"y", "=", "%d">>

SetLock == \E a \in LockArgs : Quiescent /\ log_set_lock(a[1], a[2])

SetLevel == \E l \in Levels : Quiescent /\ log_set_level(l)

SetQuiet == \E q \in BOOLEAN : Quiescent /\ log_set_quiet(q)

AddCallback == \E a \in RegArgs : log_add_callback(Main, a[1], a[2], a[3])

Log == \E l \in Levels : LogCall(Main, l, SiteFile, 7, SiteFmt, <<7>>)

Next ==
  \/ SetLock
  \/ SetLevel
  \/ SetQuiet
  \/ AddCallback
  \/ Log
  \/ LogLock(Main)
  \/ LogPrimary(Main)
  \/ LogWrite(Main)
  \/ LogLoop(Main)
  \/ LogUnlock(Main)
  \/ Return(Main)

Spec == Init /\ [][Next]_vars

(***************************************************************************)
(* SpecFmt: one log_log call in the initial configuration, over many call   *)
(* sites: every severity, file names of every length up to MaxFileLen,      *)
(* short and long line numbers, messages of every length up to past the     *)
(* buffer's capacity, and a message that cannot be encoded.                 *)
(***************************************************************************)
FileNames == {[k \in 1 .. n |-> "f"] : n \in 0 .. MaxFileLen}

Lines == {7, 123, -45}

Fmts ==
  {[k \in 1 .. n |-> "x"] \o tl :
     n \in 0 .. MaxLiteralLen, tl \in {<<>>, <<"%d">>, <<"%lc">>}}

InitFmt ==
  /\ L = [udata |-> NULL, lock |-> NULL, level |-> 0, quiet |-> FALSE,
          callbacks |-> [s \in Slots |-> NoCallback]]
  /\ buf = [k \in 0 .. (LOG_BUFFER_SIZE - 1) |-> NUL]
  /\ holder = [m \in Mutexes |-> NULL]
  /\ \E l \in Levels, f \in FileNames, n \in Lines, m \in Fmts :
       /\ ev = [t \in Threads |->
                  IF t = Main
                  THEN [fmt |-> m, file |-> f, line |-> n, level |-> l,
                        time |-> NULL, udata |-> NULL, ap |-> -1]
                  ELSE NoEvent]
       /\ trace = [t \in Threads |->
                     IF t = Main THEN <<[op |-> "log_log", level |-> l]>>
                     ELSE <<>>]
  /\ vargs = [t \in Threads |-> IF t = Main THEN <<1234>> ELSE <<>>]
  /\ pc = [t \in Threads |-> IF t = Main THEN "lock" ELSE "idle"]
  /\ idx = [t \in Threads |-> 0]
  /\ pos = [t \in Threads |-> 0]
  /\ ret = [t \in Threads |-> 0]

NextFmt ==
  \/ LogLock(Main)
  \/ LogPrimary(Main)
  \/ LogWrite(Main)
  \/ LogLoop(Main)
  \/ LogUnlock(Main)
  \/ Return(Main)

SpecFmt == InitFmt /\ [][NextFmt]_vars

(***************************************************************************)
(* SpecMutex: two threads call log_log at will, after the setup has         *)
(* installed a lock hook that is a real mutex and registered one observer.  *)
(***************************************************************************)
InitMutex ==
  /\ L = [udata |-> "m1", lock |-> "h1", level |-> 0, quiet |-> FALSE,
          callbacks |-> [s \in Slots |->
             IF s = 0 THEN [fn |-> "f1", udata |-> "u1", level |-> LOG_WARN]
             ELSE NoCallback]]
  /\ buf = [k \in 0 .. (LOG_BUFFER_SIZE - 1) |-> NUL]
  /\ holder = [m \in Mutexes |-> NULL]
  /\ pc = [t \in Threads |-> "idle"]
  /\ ev = [t \in Threads |-> NoEvent]
  /\ vargs = [t \in Threads |-> <<>>]
  /\ idx = [t \in Threads |-> 0]
  /\ pos = [t \in Threads |-> 0]
  /\ ret = [t \in Threads |-> 0]
  /\ trace = [t \in Threads |-> <<>>]

LogAny(t) ==
  \E l \in {LOG_INFO, LOG_WARN, LOG_FATAL} :
    LogCall(t, l, SiteFile, 7, SiteFmt, <<7>>)

NextMutex ==
  \E t \in Threads :
    \/ LogAny(t)
    \/ LogLock(t)
    \/ LogPrimary(t)
    \/ LogWrite(t)
    \/ LogLoop(t)
    \/ LogUnlock(t)
    \/ Return(t)

SpecMutex == InitMutex /\ [][NextMutex]_vars

(***************************************************************************)
(* What a call has done, read off its trace.                                *)
(***************************************************************************)
Count(tr, o) == Cardinality({k \in DOMAIN tr : tr[k].op = o})

CallsOf(tr, s) ==
  Cardinality({k \in DOMAIN tr : tr[k].op = "callback" /\ tr[k].slot = s})

Occupied(cbs) == {s \in Slots : cbs[s].fn # NULL}

Consumers == {"stdout_callback", "callback"}

InGate == {"primary", "write", "loop", "unlock"}

(***************************************************************************)
(* C1: when a log() call is complete, the primary sink was invoked iff      *)
(* quiet is false and the event's level is at least the threshold, and the  *)
(* observer of each registered entry was invoked iff the event's level is   *)
(* at least the entry's minimum level, whatever quiet and the threshold     *)
(* are.                                                                    *)
(***************************************************************************)
C1_Filtering ==
  pc[Main] = "done" =>
    /\ (Count(trace[Main], "stdout_callback") > 0)
         <=> (~L.quiet /\ ev[Main].level >= L.level)
    /\ (Count(trace[Main], "write") > 0)
         <=> (~L.quiet /\ ev[Main].level >= L.level)
    /\ \A s \in Slots :
         (CallsOf(trace[Main], s) > 0)
           <=> (L.callbacks[s].fn # NULL /\ ev[Main].level >= L.callbacks[s].level)

\* a completed call kept from the primary sink, with the first observer
\* invoked and the second one not
C1_Witness ==
  /\ pc[Main] = "done"
  /\ L.quiet \/ ev[Main].level < L.level
  /\ Count(trace[Main], "stdout_callback") = 0
  /\ CallsOf(trace[Main], 0) = 1
  /\ Occupied(L.callbacks) = Slots
  /\ CallsOf(trace[Main], 1) = 0

(***************************************************************************)
(* C2: log_add_callback on a full table returns -1 and leaves every slot    *)
(* of the table as it was.                                                  *)
(***************************************************************************)
C2_FullTableRejects ==
  [][(pc[Main] = "idle" /\ pc'[Main] = "added" /\ Occupied(L.callbacks) = Slots)
       => (ret'[Main] = -1 /\ L'.callbacks = L.callbacks)]_vars

C2_Witness ==
  /\ pc[Main] = "added"
  /\ ret[Main] = -1
  /\ trace[Main][1].fn # NULL
  /\ Occupied(L.callbacks) = Slots
  /\ L.callbacks[0] # L.callbacks[1]

(***************************************************************************)
(* C3: as claimed, log_add_callback on a table with k < MAX_CALLBACKS       *)
(* entries returns 0 for every observer argument, and the table then holds  *)
(* k+1 entries, the new one at position k.                                  *)
(***************************************************************************)
C3_RegistrationSucceeds ==
  [][(pc[Main] = "idle" /\ pc'[Main] = "added" /\ Occupied(L.callbacks) # Slots)
       => LET k    == Cardinality(Occupied(L.callbacks))
              call == trace'[Main][1]
          IN  /\ ret'[Main] = 0
              /\ Cardinality(Occupied(L'.callbacks)) = k + 1
              /\ L'.callbacks[k] = [fn |-> call.fn, udata |-> call.udata,
                                    level |-> call.level]]_vars

(***************************************************************************)
(* C4: with a lock hook installed, a log() call calls the hook with         *)
(* acquiring = TRUE exactly once, as the first thing it does (before the    *)
(* steps that read the threshold, the quiet flag and the table, and before  *)
(* any consumer), and with acquiring = FALSE exactly once, as the last      *)
(* thing it does; both with the installed hook's user data.                 *)
(***************************************************************************)
Acquire == [op |-> "lock", fn |-> L.lock, acquiring |-> TRUE, udata |-> L.udata]

Release == [op |-> "lock", fn |-> L.lock, acquiring |-> FALSE, udata |-> L.udata]

C4_LockDiscipline ==
  L.lock # NULL =>
    LET tr == trace[Main]
    IN  /\ pc[Main] = "lock" => Count(tr, "lock") = 0
        /\ pc[Main] \in InGate =>
             /\ Count(tr, "lock") = 1
             /\ tr[2] = Acquire
        /\ pc[Main] = "done" =>
             /\ Count(tr, "lock") = 2
             /\ tr[2] = Acquire
             /\ tr[Len(tr)] = Release
             /\ holder[L.udata] = NULL

C4_Witness ==
  /\ pc[Main] = "done"
  /\ L.lock # NULL
  /\ Count(trace[Main], "write") = 1
  /\ Count(trace[Main], "callback") = MAX_CALLBACKS

(***************************************************************************)
(* C5: in the calls one log() makes, the primary sink (its formatting and   *)
(* its write) comes before every observer, observers come in slot order,    *)
(* and when an observer is invoked every qualifying entry registered        *)
(* before it has been invoked already.                                      *)
(***************************************************************************)
C5_DispatchOrder ==
  LET tr == trace[Main]
  IN  /\ \A i, j \in DOMAIN tr :
           (i < j /\ tr[i].op = "callback") =>
             /\ tr[j].op \notin {"stdout_callback", "format", "write"}
             /\ tr[j].op = "callback" => tr[i].slot < tr[j].slot
      /\ \A j \in DOMAIN tr :
           tr[j].op = "callback" =>
             \A s \in 0 .. (tr[j].slot - 1) :
               ev[Main].level >= L.callbacks[s].level
                 => \E i \in 1 .. (j - 1) : tr[i].op = "callback" /\ tr[i].slot = s

C5_Witness ==
  /\ pc[Main] = "done"
  /\ Count(trace[Main], "write") = 1
  /\ Count(trace[Main], "callback") = MAX_CALLBACKS
  /\ L.callbacks[0].fn # L.callbacks[1].fn

(***************************************************************************)
(* C8: every consumer of one log() call is handed the argument list at its  *)
(* first argument, so each of them expands the format to the same message.  *)
(***************************************************************************)
C8_FreshArguments ==
  \A k \in DOMAIN trace[Main] :
    trace[Main][k].op \in Consumers =>
      /\ trace[Main][k].ap = 0
      /\ trace[Main][k].msg = Expand(ev[Main].fmt, vargs[Main], 0).text

\* an observer invoked after the primary sink has taken the argument
C8_Witness ==
  /\ Count(trace[Main], "write") = 1
  /\ Count(trace[Main], "callback") = 1
  /\ pc[Main] = "loop"
  /\ idx[Main] = 1
  /\ ev[Main].ap = Len(vargs[Main])
  /\ Len(vargs[Main]) > 0
  /\ trace[Main][Len(trace[Main])].msg = <<"y", "=", "7">>

(***************************************************************************)
(* C10: one log() call writes to the transport once if the primary sink     *)
(* qualifies and never otherwise, and invokes each qualifying observer      *)
(* once; nothing is invoked twice.                                          *)
(***************************************************************************)
C10_ExactlyOnce ==
  LET tr == trace[Main]
  IN  /\ Count(tr, "write") <= 1
      /\ Count(tr, "stdout_callback") <= 1
      /\ \A s \in Slots : CallsOf(tr, s) <= 1
      /\ pc[Main] = "done" =>
           /\ Count(tr, "write") =
                (IF ~L.quiet /\ ev[Main].level >= L.level THEN 1 ELSE 0)
           /\ Count(tr, "stdout_callback") = Count(tr, "write")
           /\ \A s \in Slots :
                CallsOf(tr, s) =
                  (IF L.callbacks[s].fn # NULL
                      /\ ev[Main].level >= L.callbacks[s].level THEN 1 ELSE 0)

C10_Witness ==
  /\ pc[Main] = "done"
  /\ Count(trace[Main], "write") = 1
  /\ \A s \in Slots : CallsOf(trace[Main], s) = 1
  /\ L.lock = NULL

(***************************************************************************)
(* C6: with a real mutex behind the lock hook, at most one thread is        *)
(* between its acquire and its release, however two threads' log() calls    *)
(* interleave; so what a thread writes to the transport is the line it      *)
(* formatted itself, and no consumer call of one thread falls between the   *)
(* acquire and the release of the other.                                    *)
(***************************************************************************)
\* the bytes a thread's event formats to
OwnLine(t) ==
  LET r == stdout_callback(va_start(ev[t]), vargs[t], buf)
  IN  semihosting_write(r.buf, r.pos).bytes

C6_MutualExclusion ==
  /\ Cardinality({t \in Threads : pc[t] \in InGate}) <= 1
  /\ \A t \in Threads :
       /\ pc[t] \in InGate => holder[L.udata] = t
       /\ pc[t] = "write" => semihosting_write(buf, pos[t]).bytes = OwnLine(t)
       /\ \A k \in DOMAIN trace[t] :
            trace[t][k].op = "write" => trace[t][k].bytes = OwnLine(t)

\* one thread has formatted its line and not yet written it, the other
\* waits at the gate with an event of another level
C6_Witness ==
  \E t, u \in Threads :
    /\ pc[t] = "write"
    /\ pc[u] = "lock"
    /\ ev[u].level # ev[t].level
    /\ holder[L.udata] = t

(***************************************************************************)
(* C7: the formatter stores to no buffer index above LOG_BUFFER_SIZE - 1,   *)
(* and the span it hands to the transport has a length from 1 to            *)
(* LOG_BUFFER_SIZE and ends in a newline, for every event.                  *)
(***************************************************************************)
C7_BoundedLine ==
  \A k \in DOMAIN trace[Main] :
    LET r == trace[Main][k]
    IN  /\ r.op = "format" => r.hi <= LOG_BUFFER_SIZE - 1
        /\ r.op = "write" =>
             /\ r.length >= 1
             /\ r.length <= LOG_BUFFER_SIZE
             /\ r.bytes[r.length] = "\n"

\* a written line whose message expansion alone is longer than the buffer
C7_Witness ==
  /\ Count(trace[Main], "write") = 1
  /\ ~Expand(ev[Main].fmt, vargs[Main], 0).err
  /\ Len(Expand(ev[Main].fmt, vargs[Main], 0).text) > LOG_BUFFER_SIZE
  /\ Len(ev[Main].file) > 0

(***************************************************************************)
(* C9: as claimed, for every severity and every event whose rendering       *)
(* fits, the bytes written are the time, a space, the severity name as a    *)
(* 5-character field, a space, the file, ':', the line in decimal, ':',     *)
(* a space, the message and a newline.                                      *)
(***************************************************************************)
Pad5(s) == s \o [k \in 1 .. (5 - Len(s)) |-> " "]

DocumentedLine(e, args) ==
  TimeStr(e.time) \o <<" ">> \o Pad5(LevelStr(e.level)) \o <<" ">> \o e.file
    \o <<":">> \o DecStr(e.line) \o <<":", " ">> \o Expand(e.fmt, args, 0).text
    \o <<"\n">>

Fits(e, args) ==
  /\ ~Expand(e.fmt, args, 0).err
  /\ Len(DocumentedLine(e, args)) < LOG_BUFFER_SIZE

C9_LineFormat ==
  \A k \in DOMAIN trace[Main] :
    (trace[Main][k].op = "write" /\ Fits(ev[Main], vargs[Main]))
      => trace[Main][k].bytes = DocumentedLine(ev[Main], vargs[Main])

(***************************************************************************)
(* C11: the occupied slots of the table are the indices 0 .. k-1 for some   *)
(* k (no gap), and no step changes the observer, user data or minimum       *)
(* level of an occupied slot.                                               *)
(***************************************************************************)
Dense(cbs) == \A s \in Occupied(cbs) : \A r \in 0 .. s : r \in Occupied(cbs)

C11_DenseAppendOnly ==
  /\ [](Dense(L.callbacks))
  /\ [][\A s \in Occupied(L.callbacks) : L'.callbacks[s] = L.callbacks[s]]_vars

\* the registration that fills the last slot has returned
C11_Witness ==
  /\ pc[Main] = "added"
  /\ ret[Main] = 0
  /\ Occupied(L.callbacks) = Slots
  /\ L.callbacks[MAX_CALLBACKS - 1].fn = trace[Main][1].fn
  /\ L.level # 0
  /\ L.quiet
  /\ L.lock # NULL

(***************************************************************************)
(* C12: a log_set_level step changes nothing but L.level and a              *)
(* log_set_quiet step nothing but L.quiet; across either, the observers     *)
(* that log() invokes for an event of any level are the same.               *)
(***************************************************************************)
\* the slots whose observer the loop of lines 195-203 invokes for a level
Dispatched(level) ==
  {s \in Slots : /\ \A r \in 0 .. s : L.callbacks[r].fn # NULL
                 /\ CallbackEnabled(L.callbacks[s], level)}

SameObservers == \A l \in Levels : Dispatched(l)' = Dispatched(l)

C12_SetterFrames ==
  [][/\ SetLevel =>
          /\ L' = [L EXCEPT !.level = L'.level]
          /\ UNCHANGED <<buf, holder, pc, ev, vargs, idx, pos, ret, trace>>
          /\ SameObservers
     /\ SetQuiet =>
          /\ L' = [L EXCEPT !.quiet = L'.quiet]
          /\ UNCHANGED <<buf, holder, pc, ev, vargs, idx, pos, ret, trace>>
          /\ SameObservers]_vars

\* after both setters have changed their field, an observer is invoked
C12_Witness ==
  /\ pc[Main] = "done"
  /\ L.level = LOG_FATAL
  /\ L.quiet
  /\ L.lock # NULL
  /\ Occupied(L.callbacks) = Slots
  /\ ev[Main].level = LOG_ERROR
  /\ Count(trace[Main], "callback") >= 1

(***************************************************************************)
(* C13: no step of a log() call, from its entry to its return, changes L.   *)
(***************************************************************************)
LogPcs == {"lock", "primary", "write", "loop", "unlock", "done"}

C13_LogLeavesState ==
  [][(pc[Main] \in LogPcs \/ pc'[Main] \in LogPcs) => L' = L]_vars

\* a completed call for which nothing qualified, in a configured logger
C13_Witness ==
  /\ pc[Main] = "done"
  /\ Count(trace[Main], "write") = 0
  /\ Count(trace[Main], "callback") = 0
  /\ Occupied(L.callbacks) # {}
  /\ L.lock # NULL
  /\ L.level # 0

(***************************************************************************)
(* C14: the zero-initialised L has the lowest threshold, quiet off, no      *)
(* lock hook and an empty table, and a log() call made in it reaches the    *)
(* primary sink at every severity, calls no lock hook and no observer.      *)
(***************************************************************************)
C14_Defaults ==
  L = ZeroL =>
    /\ L.level = LOG_TRACE
    /\ \A l \in Levels : L.level <= l
    /\ ~L.quiet
    /\ L.lock = NULL
    /\ Occupied(L.callbacks) = {}
    /\ pc[Main] = "done" =>
         /\ Count(trace[Main], "stdout_callback") = 1
         /\ Count(trace[Main], "write") = 1
         /\ Count(trace[Main], "lock") = 0
         /\ Count(trace[Main], "callback") = 0

C14_Witness ==
  /\ L = ZeroL
  /\ pc[Main] = "done"
  /\ ev[Main].level = LOG_TRACE
  /\ Count(trace[Main], "write") = 1

(***************************************************************************)
(* C15: a log() call asks the time source at most once, right before the    *)
(* first consumer it invokes and never after, and not at all when it        *)
(* invokes none; every consumer is handed the same timestamp.               *)
(***************************************************************************)
C15_OneTimestamp ==
  LET tr == trace[Main]
  IN  /\ Count(tr, "time") <= 1
      /\ \A k \in DOMAIN tr :
           tr[k].op = "time" =>
             /\ k < Len(tr)
             /\ tr[k + 1].op \in Consumers
             /\ \A j \in 1 .. (k - 1) : tr[j].op \notin Consumers
      /\ \A k \in DOMAIN tr :
           tr[k].op \in Consumers =>
             /\ tr[k].time \in Times
             /\ \E j \in 1 .. (k - 1) : tr[j].op = "time"
             /\ \A j \in DOMAIN tr :
                  tr[j].op \in Consumers => tr[j].time = tr[k].time

\* the primary sink did not qualify: the first observer asked for the time
\* and the second one did not
C15_Witness ==
  /\ pc[Main] = "done"
  /\ Count(trace[Main], "stdout_callback") = 0
  /\ Count(trace[Main], "callback") = MAX_CALLBACKS
  /\ Count(trace[Main], "time") = 1

(***************************************************************************)
(* C16: the primary sink is handed the event with null user data, and the   *)
(* observer of an entry is handed it with that entry's user data.           *)
(***************************************************************************)
C16_UserDataBound ==
  \A k \in DOMAIN trace[Main] :
    LET r == trace[Main][k]
    IN  /\ r.op = "stdout_callback" => r.udata = NULL
        /\ r.op = "callback" => r.udata = L.callbacks[r.slot].udata

\* two observers with different user data, invoked one after the other
C16_Witness ==
  /\ pc[Main] = "done"
  /\ Count(trace[Main], "callback") = MAX_CALLBACKS
  /\ L.callbacks[0].udata # L.callbacks[1].udata
  /\ L.callbacks[1].udata # NULL

(***************************************************************************)
(* C18: when the header and the message together are too long for the       *)
(* buffer to hold them with a newline and a terminator, the span written    *)
(* has length exactly LOG_BUFFER_SIZE - 1 and its newline is at index       *)
(* LOG_BUFFER_SIZE - 2; when the message ends exactly at index              *)
(* LOG_BUFFER_SIZE - 1 the newline stands in place of its last character.   *)
(***************************************************************************)
\* the header of lines 91-108 followed by the expanded message
Content(e, args) ==
  TimeStr(e.time) \o <<" ">> \o LevelStr(e.level) \o <<" ">> \o e.file
    \o <<":">> \o DecStr(e.line) \o <<":", " ">> \o Expand(e.fmt, args, 0).text

C18_TruncatedLength ==
  \A k \in DOMAIN trace[Main] :
    LET r == trace[Main][k]
        c == Content(ev[Main], vargs[Main])
    IN  (/\ r.op = "write"
         /\ ~Expand(ev[Main].fmt, vargs[Main], 0).err
         /\ Len(c) >= LOG_BUFFER_SIZE - 1)
        => /\ r.length = LOG_BUFFER_SIZE - 1
           /\ r.bytes[LOG_BUFFER_SIZE - 1] = "\n"
           /\ Len(c) = LOG_BUFFER_SIZE - 1 =>
                r.bytes = SubSeq(c, 1, LOG_BUFFER_SIZE - 2) \o <<"\n">>

\* a written line whose message ends exactly at the last index of the buffer
C18_Witness ==
  /\ Count(trace[Main], "write") = 1
  /\ ~Expand(ev[Main].fmt, vargs[Main], 0).err
  /\ Len(Expand(ev[Main].fmt, vargs[Main], 0).text) >= 1
  /\ Len(Content(ev[Main], vargs[Main])) = LOG_BUFFER_SIZE - 1

(***************************************************************************)
(* SpecLive: one log_log call, made in any configuration the setters and    *)
(* registrations can build, with a message that fits or one that is         *)
(* truncated.  The lock hook, the transport and the observers return, so    *)
(* the thread takes every step it can take.                                 *)
(***************************************************************************)
Entries ==
  {[fn |-> a[1], udata |-> a[2], level |-> a[3]] : a \in {r \in RegArgs : r[1] # NULL}}

Tables == {c \in [Slots -> Entries \cup {NoCallback}] : Dense(c)}

\* an argument whose digits do not fit in the line
LongArg == 1234567

InitLive ==
  /\ \E a \in LockArgs, l \in Levels, q \in BOOLEAN, c \in Tables :
       L = [udata |-> a[2], lock |-> a[1], level |-> l, quiet |-> q,
            callbacks |-> c]
  /\ buf = [k \in 0 .. (LOG_BUFFER_SIZE - 1) |-> NUL]
  /\ holder = [m \in Mutexes |-> NULL]
  /\ \E l \in Levels, n \in {7, LongArg} :
       /\ ev = [t \in Threads |->
                  IF t = Main
                  THEN [fmt |-> SiteFmt, file |-> SiteFile, line |-> 7,
                        level |-> l, time |-> NULL, udata |-> NULL, ap |-> -1]
                  ELSE NoEvent]
       /\ trace = [t \in Threads |->
                     IF t = Main THEN <<[op |-> "log_log", level |-> l]>>
                     ELSE <<>>]
       /\ vargs = [t \in Threads |-> IF t = Main THEN <<n>> ELSE <<>>]
  /\ pc = [t \in Threads |-> IF t = Main THEN "lock" ELSE "idle"]
  /\ idx = [t \in Threads |-> 0]
  /\ pos = [t \in Threads |-> 0]
  /\ ret = [t \in Threads |-> 0]

NextLive ==
  \/ LogLock(Main)
  \/ LogPrimary(Main)
  \/ LogWrite(Main)
  \/ LogLoop(Main)
  \/ LogUnlock(Main)
  \/ Return(Main)

\* the step of LogPrimary as pc shows it: stdout_callback is skipped or
\* returns with the line formatted
PrimaryReturns(t) ==
  /\ pc[t] = "primary"
  /\ pc' = [pc EXCEPT ![t] = IF PrimaryEnabled(ev[t].level) THEN "write"
                                                             ELSE "loop"]

SpecLive ==
  /\ InitLive
  /\ [][NextLive]_vars
  /\ WF_vars(LogLock(Main))
  /\ WF_pc(PrimaryReturns(Main))
  /\ WF_vars(LogWrite(Main))
  /\ WF_vars(LogLoop(Main))
  /\ WF_vars(LogUnlock(Main))
  /\ WF_vars(Return(Main))

(***************************************************************************)
(* C17: a log() call that has taken the lock gives it back and returns,     *)
(* and so does a call made with no lock hook; the loop never looks past     *)
(* slot MAX_CALLBACKS - 1.                                                  *)
(***************************************************************************)
C17_Terminates ==
  /\ [](idx[Main] <= MAX_CALLBACKS)
  /\ \A m \in Mutexes :
       (holder[m] = Main) ~> (holder[m] = NULL /\ pc[Main] = "idle")
  /\ (pc[Main] # "idle") ~> (pc[Main] = "idle")

\* a call whose line was truncated has looked at every slot of a full table
\* and given the lock back
C17_Witness ==
  /\ pc[Main] = "done"
  /\ L.lock # NULL
  /\ holder[L.udata] = NULL
  /\ Count(trace[Main], "lock") = 2
  /\ idx[Main] = MAX_CALLBACKS
  /\ \E k \in DOMAIN trace[Main] :
       /\ trace[Main][k].op = "write"
       /\ trace[Main][k].length = LOG_BUFFER_SIZE - 1
       /\ Len(Content(ev[Main], vargs[Main])) > LOG_BUFFER_SIZE

(***************************************************************************)
(* SpecRace: two threads call log_add_callback at will, with or without a   *)
(* lock hook installed.  log_add_callback runs one memory access at a       *)
(* time: each test of a slot's fn, then the store into the slot it found.   *)
(***************************************************************************)
\* lines 158-159: the call is entered and the scan starts at slot 0
AddEnter(t, fn, udata, level) ==
  /\ Idle(t)
  /\ pc' = [pc EXCEPT ![t] = "scan"]
  /\ idx' = [idx EXCEPT ![t] = 0]
  /\ trace' = [trace EXCEPT ![t] =
                 <<[op |-> "log_add_callback", fn |-> fn, udata |-> udata,
                    level |-> level,
                    free |-> Cardinality(FreeSlots(L.callbacks))]>>]
  /\ UNCHANGED <<L, buf, holder, ev, vargs, pos, ret>>

\* lines 159-160 and 165: one test of the loop
AddScan(t) ==
  /\ pc[t] = "scan"
  /\ IF idx[t] < MAX_CALLBACKS
     THEN IF L.callbacks[idx[t]].fn = NULL
          THEN /\ pc' = [pc EXCEPT ![t] = "store"]
               /\ UNCHANGED <<idx, ret>>
          ELSE /\ idx' = [idx EXCEPT ![t] = @ + 1]
               /\ UNCHANGED <<pc, ret>>
     ELSE /\ ret' = [ret EXCEPT ![t] = -1]
          /\ pc' = [pc EXCEPT ![t] = "added"]
          /\ UNCHANGED idx
  /\ UNCHANGED <<L, buf, holder, ev, vargs, pos, trace>>

\* lines 161-162: the store into the slot the scan stopped at
AddStore(t) ==
  /\ pc[t] = "store"
  /\ L' = [L EXCEPT !.callbacks[idx[t]] =
                      [fn |-> trace[t][1].fn, udata |-> trace[t][1].udata,
                       level |-> trace[t][1].level]]
  /\ ret' = [ret EXCEPT ![t] = 0]
  /\ pc' = [pc EXCEPT ![t] = "added"]
  /\ UNCHANGED <<buf, holder, ev, vargs, idx, pos, trace>>

InitRace ==
  /\ \E a \in LockArgs : L = [ZeroL EXCEPT !.lock = a[1], !.udata = a[2]]
  /\ buf = [k \in 0 .. (LOG_BUFFER_SIZE - 1) |-> NUL]
  /\ holder = [m \in Mutexes |-> NULL]
  /\ pc = [t \in Threads |-> "idle"]
  /\ ev = [t \in Threads |-> NoEvent]
  /\ vargs = [t \in Threads |-> <<>>]
  /\ idx = [t \in Threads |-> 0]
  /\ pos = [t \in Threads |-> 0]
  /\ ret = [t \in Threads |-> 0]
  /\ trace = [t \in Threads |-> <<>>]

NextRace ==
  \E t \in Threads :
    \/ \E a \in {r \in RegArgs : r[1] # NULL} : AddEnter(t, a[1], a[2], a[3])
    \/ AddScan(t)
    \/ AddStore(t)
    \/ Return(t)

SpecRace == InitRace /\ [][NextRace]_vars

(***************************************************************************)
(* C19: as claimed, when two log_add_callback calls that each started on    *)
(* a table with at least two free slots have both returned, both returned   *)
(* 0 and the two entries are in two distinct slots of the table.            *)
(***************************************************************************)
C19_BothRegistered ==
  \A t1, t2 \in Threads :
    (/\ t1 # t2
     /\ pc[t1] = "added" /\ trace[t1][1].free >= 2
     /\ pc[t2] = "added" /\ trace[t2][1].free >= 2)
    => /\ ret[t1] = 0
       /\ ret[t2] = 0
       /\ \E s1, s2 \in Slots :
            /\ s1 # s2
            /\ L.callbacks[s1] = [fn |-> trace[t1][1].fn,
                                  udata |-> trace[t1][1].udata,
                                  level |-> trace[t1][1].level]
            /\ L.callbacks[s2] = [fn |-> trace[t2][1].fn,
                                  udata |-> trace[t2][1].udata,
                                  level |-> trace[t2][1].level]

(***************************************************************************)
(* SpecSwap: one thread calls log_log while log_set_lock is called at any   *)
(* moment, by another thread or by an observer: before, between and inside  *)
(* the calls.  The setup has installed a mutex hook and one observer.       *)
(***************************************************************************)
\* a second hook, whose user data is not a mutex of the model
SwapArgs == LockArgs \cup {<<"h2", "d2">>}

SetLockAnytime == \E a \in SwapArgs : log_set_lock(a[1], a[2])

NextSwap ==
  \/ SetLockAnytime
  \/ LogAny(Main)
  \/ LogLock(Main)
  \/ LogPrimary(Main)
  \/ LogWrite(Main)
  \/ LogLoop(Main)
  \/ LogUnlock(Main)
  \/ Return(Main)

SpecSwap == InitMutex /\ [][NextSwap]_vars

(***************************************************************************)
(* C20: as claimed, in a completed log() call every acquire the lock hook   *)
(* was given is followed by a release given to the same hook with the same  *)
(* user data, and every release follows such an acquire.                    *)
(***************************************************************************)
C20_ReleaseMatchesAcquire ==
  pc[Main] = "done" =>
    LET tr == trace[Main]
        A  == {k \in DOMAIN tr : tr[k].op = "lock" /\ tr[k].acquiring}
        R  == {k \in DOMAIN tr : tr[k].op = "lock" /\ ~tr[k].acquiring}
    IN  /\ \A k \in A : \E j \in R : /\ j > k
                                     /\ tr[j].fn = tr[k].fn
                                     /\ tr[j].udata = tr[k].udata
        /\ \A j \in R : \E k \in A : /\ k < j
                                     /\ tr[k].fn = tr[j].fn
                                     /\ tr[k].udata = tr[j].udata

=============================================================================
